---------------------------- MODULE Spec2Model ----------------------------
(* A model of CasualDAG_Sum's graph utilities (graph_utils.py) and of its  *)
(* semantic colouring (semantic_coloring.py).                              *)
(*                                                                         *)
(* Each group of functions is exercised by its own specification:          *)
(*   SpecLoad    load_dag_from_file and its temporary file                 *)
(*   SpecCluster cluster_by_similarity on arbitrary similarity matrices    *)
(*   SpecAssign  assign_colors_to_clusters on arbitrary cluster lists      *)
(*   SpecColor   colorize_nodes_by_similarity (the whole pipeline)         *)
(*   SpecFix     _fix_dict_recursively                                     *)
(*   SpecGraph   to_pyvis_compatible and fix_nested_keys_in_edge_attrs     *)
(* Python strings are sequences of one-character strings, so that str()    *)
(* and the f-string of the colour are real conversions.                    *)
EXTENDS Integers, Sequences, FiniteSets, TLC

VARIABLES
    \* ---- load_dag_from_file
    fsTemp,         \* the temporary files that exist on the filesystem
    calls,          \* how many calls of load_dag_from_file have returned
    lastFile,       \* the argument of the last call
    lastTemp,       \* the temporary file the last call created (0: none)
    failedAt,       \* the step of the try block that raised in the last call
    ret,            \* what the last call gave its caller
    reported,       \* what the last call showed the user (st.error/st.warning)
    \* ---- semantic_coloring.py
    nodes,          \* the node collection given to colorize_nodes_by_similarity
    similarity,     \* node -> node -> score (in tenths)
    threshold,      \* the threshold given to cluster_by_similarity (in tenths)
    clusters,       \* list of lists of nodes
    color_map,      \* node -> colour string
    phase,          \* "input" before the call, "done" after it
    \* ---- _fix_dict_recursively
    d0,             \* the dictionary as it was given
    d,              \* the dictionary (modified in place)
    applied,        \* how many times it has been normalised
    after1,         \* the dictionary as the first application left it
    \* ---- to_pyvis_compatible / fix_nested_keys_in_edge_attrs
    G,              \* the input graph
    newG,           \* the graph to_pyvis_compatible returned
    gphase          \* "input", "returned", "raised"

loadVars  == <<fsTemp, calls, lastFile, lastTemp, failedAt, ret, reported>>
colorVars == <<nodes, similarity, threshold, clusters, color_map, phase>>
fixVars   == <<d0, d, applied, after1>>
graphVars == <<G, newG, gphase>>
vars == <<loadVars, colorVars, fixVars, graphVars>>

-----------------------------------------------------------------------------
(* Bounds *)

MaxCalls == 3

-----------------------------------------------------------------------------
(* Variables a specification does not use stay at these values.            *)

NoFile == [utf8 |-> TRUE, dot |-> TRUE, dag |-> TRUE]

IdleLoad ==
    /\ fsTemp = {}
    /\ calls = 0
    /\ lastFile = NoFile
    /\ lastTemp = 0
    /\ failedAt = "none"
    /\ ret = "none"
    /\ reported = "none"

IdleColor ==
    /\ nodes = <<>>
    /\ similarity = <<>>
    /\ threshold = 0
    /\ clusters = <<>>
    /\ color_map = <<>>
    /\ phase = "idle"

IdleFix ==
    /\ d0 = <<>>
    /\ d = <<>>
    /\ applied = 0
    /\ after1 = <<>>

IdleGraph ==
    /\ G = <<>>
    /\ newG = <<>>
    /\ gphase = "idle"

-----------------------------------------------------------------------------
(* load_dag_from_file (graph_utils.py 20-53)                               *)
(*                                                                         *)
(* The uploaded file is described by what the steps of the call make of    *)
(* it: whether its bytes decode as UTF-8, whether read_dot parses the      *)
(* text, whether the parsed graph is acyclic. The environment decides      *)
(* whether the temporary file can be created, written, closed and removed. *)

Files == [utf8 : BOOLEAN, dot : BOOLEAN, dag : BOOLEAN]

Envs == [create_ok : BOOLEAN, write_ok : BOOLEAN, close_ok : BOOLEAN,
         remove_ok : BOOLEAN]

\* The first statement of the try block that raises ("none": the block
\* reaches `return DG`).
TryFailure(file, env) ==
    IF ~file.utf8 THEN "decode"             \* line 26
    ELSE IF ~env.create_ok THEN "create"    \* line 29, NamedTemporaryFile()
    ELSE IF ~env.write_ok THEN "write"      \* line 30
    ELSE IF ~env.close_ok THEN "close"      \* line 29, leaving the with block
    ELSE IF ~file.dot THEN "parse"          \* line 34
    ELSE "none"

\* NamedTemporaryFile(delete=False) has created the file once the call is
\* past line 29; nothing but os.remove deletes it.
FileCreated(fail) == fail \notin {"decode", "create"}

\* temp_filepath is a local of the call only once line 31 has run.
PathRecorded(fail) == fail \notin {"decode", "create", "write"}

\* The finally block (50-53): os.remove runs when the name is bound and the
\* file exists.
RemoveAttempted(fail) == PathRecorded(fail) /\ FileCreated(fail)

\* What the try/except gives: DG on success, None from the handler.
TryResult(fail) == IF fail = "none" THEN "DG" ELSE "None"

\* st.warning for a cyclic graph (37-39), st.error in the handler (46).
Reported(file, fail) ==
    IF fail # "none" THEN "error"
    ELSE IF ~file.dag THEN "warning"
    ELSE "none"

\* An exception raised in the finally block replaces the pending return.
CallResult(fail, env) ==
    IF RemoveAttempted(fail) /\ ~env.remove_ok THEN "raised"
    ELSE TryResult(fail)

\* The temporary files that exist when the call has returned.
FilesAfter(fs, name, fail, env) ==
    IF ~FileCreated(fail) THEN fs
    ELSE IF RemoveAttempted(fail) /\ env.remove_ok THEN fs \ {name}
    ELSE fs \cup {name}

load_dag_from_file(file, env) ==
    LET fail == TryFailure(file, env)
        name == calls + 1
    IN  /\ calls < MaxCalls
        /\ calls' = calls + 1
        /\ lastFile' = file
        /\ failedAt' = fail
        /\ lastTemp' = IF FileCreated(fail) THEN name ELSE 0
        /\ fsTemp' = FilesAfter(fsTemp, name, fail, env)
        /\ ret' = CallResult(fail, env)
        /\ reported' = Reported(file, fail)
        /\ UNCHANGED <<colorVars, fixVars, graphVars>>

LoadCall == \E file \in Files, env \in Envs : load_dag_from_file(file, env)

InitLoad == IdleLoad /\ IdleColor /\ IdleFix /\ IdleGraph

NextLoad == LoadCall

SpecLoad == InitLoad /\ [][NextLoad]_vars

\* C1: once a call of load_dag_from_file has returned, the temporary file
\* it created no longer exists, whichever step failed.
C1_TempFileGone == lastTemp # 0 => lastTemp \notin fsTemp

\* C2: when decoding or parsing fails, the call reports an error and returns
\* None, and no exception escapes, the cleanup step included.
C2_NoExceptionEscapes ==
    failedAt \in {"decode", "parse"} => (ret = "None" /\ reported = "error")

-----------------------------------------------------------------------------
(* Python's str() of an int and str.join                                   *)

DigitChars == <<"0", "1", "2", "3", "4", "5", "6", "7", "8", "9">>

RECURSIVE NatStr(_)
NatStr(n) ==
    IF n < 10 THEN <<DigitChars[n + 1]>>
    ELSE NatStr(n \div 10) \o <<DigitChars[(n % 10) + 1]>>

\* str(n) for an int n
IntStr(n) == IF n < 0 THEN <<"-">> \o NatStr(-n) ELSE NatStr(n)

-----------------------------------------------------------------------------
(* semantic_coloring.py. Scores and the threshold are in tenths.           *)

SameLo == 8
SameHi == 10
CrossLo == 0
CrossHi == 6
SelfSim == 10
ColorizeThreshold == 7

\* get_category (11-26): exact match against four fixed lists
get_category(n) ==
    IF n \in {"QueryTemplate"} THEN "query_metrics"
    ELSE IF n \in {"ReturnedRows", "ReturnedBytes", "ResultCacheHit"}
        THEN "result_metrics"
    ELSE IF n \in {"ExecTime", "CompileTime", "PlanTime", "LockWaitTime",
                   "ElapsedTime"}
        THEN "time_metrics"
    ELSE IF n \in {"NumJoins", "NumTables", "NumColumns"}
        THEN "structure_metrics"
    ELSE "other"

\* uniform without its lower end: (b - a) * random()
uniformNoOffset(a, b, u) == (b - a) * u

\* random.uniform(a, b) is a + (b - a) * random(), u being what random()
\* gives.
uniform(a, b, u) == a + (b - a) * u

\* random() at its lowest and at its highest: uniform gives a and b
Units == {0, 1}

\* The keys of a dict built by inserting the elements of a list in order:
\* each element once, in the order of first appearance.
RECURSIVE KeysOf(_)
KeysOf(list) ==
    IF list = <<>> THEN <<>>
    ELSE LET front == KeysOf(SubSeq(list, 1, Len(list) - 1))
             last  == list[Len(list)]
         IN  IF \E k \in 1..Len(front) : front[k] = last THEN front
             ELSE Append(front, last)

Range(seq) == {seq[k] : k \in 1..Len(seq)}

\* The index pairs (i, j), i <= j, of the two loops of lines 31-32, and the
\* ones for which a score is drawn (line 35: equal nodes get 1.0).
IndexPairs(node_list) ==
    {p \in (1..Len(node_list)) \X (1..Len(node_list)) : p[1] <= p[2]}

DrawnPairs(node_list) ==
    {p \in IndexPairs(node_list) : node_list[p[1]] # node_list[p[2]]}

\* SimVal with the cross-category scores drawn up to the same-category floor
SimValCrossWide(ni, nj, u) ==
    IF ni = nj THEN SelfSim
    ELSE IF get_category(ni) = get_category(nj) THEN uniform(SameLo, SameHi, u)
    ELSE uniform(CrossLo, SameLo, u)

\* lines 35-41: the score of the pair (ni, nj), u being what random() gives
SimVal(ni, nj, u) ==
    IF ni = nj THEN SelfSim
    ELSE IF get_category(ni) = get_category(nj) THEN uniform(SameLo, SameHi, u)
    ELSE uniform(CrossLo, CrossHi, u)

\* lines 42-43: similarity[ni][nj] = similarity[nj][ni] = sim_val
SetBoth(at, ni, nj, v) ==
    LET one == [at EXCEPT ![ni] = (nj :> v) @@ @]
    IN  [one EXCEPT ![nj] = (ni :> v) @@ @]

\* lines 31-43: the dict of dicts once the loops have run up to and
\* including the index pair (i, j); draws[<<i, j>>] is what random() gives
\* for that pair.
RECURSIVE FillLoop(_, _, _, _)
FillLoop(node_list, draws, i, j) ==
    LET ni == node_list[i]
        nj == node_list[j]
        u  == IF ni = nj THEN 0 ELSE draws[<<i, j>>]
    IN  SetBoth(IF j > i THEN FillLoop(node_list, draws, i, j - 1)
                ELSE IF i > 1
                    THEN FillLoop(node_list, draws, i - 1, Len(node_list))
                ELSE [n \in Range(node_list) |-> <<>>],      \* line 9
                ni, nj, SimVal(ni, nj, u))

\* build_semantic_matrix (3-44). The result is a dict: its keys in insertion
\* order, and at[a][b] the score.
build_semantic_matrix(node_list, draws) ==
    [keys |-> KeysOf(node_list),
     at |-> IF node_list = <<>> THEN <<>>
            ELSE FillLoop(node_list, draws, Len(node_list), Len(node_list))]

\* FirstFit taking the last cluster that fits instead of the first
LastFit(sim, th, reps, node) ==
    LET fit == {idx \in 1..Len(reps) : sim.at[node][reps[idx]] >= th}
    IN  IF fit = {} THEN 0 ELSE CHOOSE idx \in fit : \A o \in fit : idx >= o

\* line 58: the first cluster whose representative is similar enough
\* (0: none).
FirstFit(sim, th, reps, node) ==
    LET fit == {idx \in 1..Len(reps) : sim.at[node][reps[idx]] >= th}
    IN  IF fit = {} THEN 0 ELSE CHOOSE idx \in fit : \A o \in fit : idx <= o

\* Place without the break of line 61: the node joins every cluster that fits
PlaceNoBreak(sim, th, st, node) ==
    LET fit == {idx \in 1..Len(st.reps) : sim.at[node][st.reps[idx]] >= th}
    IN  IF fit # {}
        THEN [clusters |-> [i \in 1..Len(st.clusters) |->
                              IF i \in fit THEN Append(st.clusters[i], node)
                              ELSE st.clusters[i]],
              reps |-> st.reps]
        ELSE [clusters |-> Append(st.clusters, <<node>>),
              reps |-> Append(st.reps, node)]

\* lines 56-65: one iteration of the loop over all_nodes
Place(sim, th, st, node) ==
    LET idx == FirstFit(sim, th, st.reps, node)
    IN  IF idx # 0
        THEN [clusters |-> [st.clusters EXCEPT ![idx] = Append(@, node)],
              reps |-> st.reps]
        ELSE [clusters |-> Append(st.clusters, <<node>>),
              reps |-> Append(st.reps, node)]

RECURSIVE ClusterLoop(_, _, _)
ClusterLoop(sim, th, n) ==
    IF n = 0 THEN [clusters |-> <<>>, reps |-> <<>>]
    ELSE Place(sim, th, ClusterLoop(sim, th, n - 1), sim.keys[n])

\* cluster_by_similarity (46-66)
cluster_by_similarity(sim, th) == ClusterLoop(sim, th, Len(sim.keys)).clusters

base_colors == << <<0, 128, 0>>, <<255, 69, 0>>, <<30, 144, 255>>,
                  <<128, 0, 128>>, <<220, 20, 60>>, <<255, 215, 0>> >>
step == 30
ChannelMax == 255

Min(a, b) == IF a < b THEN a ELSE b
Max(a, b) == IF a > b THEN a ELSE b

\* Channel without the clamp
ChannelUnclamped(base, idx2) == base - step * idx2

\* lines 86-88: min(max(base - step * idx2, 0), 255)
Channel(base, idx2) == Min(Max(base - step * idx2, 0), ChannelMax)

\* f"rgb({r},{g},{b})"
RgbString(r, g, b) ==
    <<"r", "g", "b", "(">> \o IntStr(r) \o <<",">> \o IntStr(g) \o <<",">>
        \o IntStr(b) \o <<")">>

\* line 83 and 86-89: the colour of the member at position idx2 (from 0) of
\* the cluster of index i (from 0)
ColorOf(i, idx2) ==
    LET base == base_colors[(i % Len(base_colors)) + 1]
    IN  RgbString(Channel(base[1], idx2), Channel(base[2], idx2),
                  Channel(base[3], idx2))

\* lines 85-89 for one cluster: each member's entry is written in turn
RECURSIVE ColorCluster(_, _, _, _)
ColorCluster(cmap, i, cluster_nodes, n) ==
    IF n = 0 THEN cmap
    ELSE (cluster_nodes[n] :> ColorOf(i, n - 1))
            @@ ColorCluster(cmap, i, cluster_nodes, n - 1)

RECURSIVE ColorLoop(_, _)
ColorLoop(cl, n) ==
    IF n = 0 THEN <<>>
    ELSE ColorCluster(ColorLoop(cl, n - 1), n - 1, cl[n], Len(cl[n]))

\* assign_colors_to_clusters (68-90)
assign_colors_to_clusters(cl) == ColorLoop(cl, Len(cl))

-----------------------------------------------------------------------------
(* cluster_by_similarity on any symmetric similarity matrix                *)

MaxKeys == 3

ClusterNodes == {"a", "b", "c", "d"}
Scores == {0, 6, 7, 10}
Thresholds == {0, 7, 10}

\* The lists of at most n distinct elements of S
DistinctSeqs(S, n) ==
    UNION {{q \in [1..k -> S] : \A i, j \in 1..k : i # j => q[i] # q[j]} :
           k \in 0..n}

Pairs(S) == {{a, b} : a, b \in S} \ {{a} : a \in S}

SymmetricMatrix(keys, tri) ==
    [keys |-> keys,
     at |-> [a \in Range(keys) |-> [b \in Range(keys) |->
               IF a = b THEN SelfSim ELSE tri[{a, b}]]]]

InitCluster ==
    /\ IdleLoad /\ IdleFix /\ IdleGraph
    /\ \E keys \in DistinctSeqs(ClusterNodes, MaxKeys) :
         \E tri \in [Pairs(Range(keys)) -> Scores] :
            /\ nodes = keys
            /\ similarity = SymmetricMatrix(keys, tri)
    /\ threshold \in Thresholds
    /\ clusters = <<>>
    /\ color_map = <<>>
    /\ phase = "input"

ClusterCall ==
    /\ phase = "input"
    /\ clusters' = cluster_by_similarity(similarity, threshold)
    /\ phase' = "done"
    /\ UNCHANGED <<nodes, similarity, threshold, color_map>>
    /\ UNCHANGED <<loadVars, fixVars, graphVars>>

NextCluster == ClusterCall

SpecCluster == InitCluster /\ [][NextCluster]_vars

\* The members of all clusters, cluster after cluster
RECURSIVE Flatten(_)
Flatten(cl) ==
    IF cl = <<>> THEN <<>>
    ELSE Flatten(SubSeq(cl, 1, Len(cl) - 1)) \o cl[Len(cl)]

Occurrences(seq, x) == Cardinality({k \in 1..Len(seq) : seq[k] = x})

\* The position of x in a list that holds it once
IndexIn(seq, x) == CHOOSE k \in 1..Len(seq) : seq[k] = x

\* C3: the clusters partition the node set: every node of the matrix is in
\* exactly one cluster exactly once, no cluster is empty, no other node
\* appears.
C3_Partition ==
    phase = "done" =>
        /\ \A n \in Range(similarity.keys) : Occurrences(Flatten(clusters), n) = 1
        /\ \A i \in 1..Len(clusters) : clusters[i] # <<>>
        /\ Range(Flatten(clusters)) \subseteq Range(similarity.keys)

C3_Witness ==
    /\ phase = "done"
    /\ Len(similarity.keys) = MaxKeys
    /\ Len(clusters) = 2

-----------------------------------------------------------------------------
(* assign_colors_to_clusters on any list of disjoint non-empty clusters    *)

MaxClusters == 7
MaxClusterSize == 2

\* The clusters of the given sizes over the nodes 1, 2, 3, ...
RECURSIVE ClustersOfSizes(_, _)
ClustersOfSizes(sizes, n) ==
    IF n = 0 THEN <<>>
    ELSE LET before == ClustersOfSizes(sizes, n - 1)
             used == Len(Flatten(before))
         IN  Append(before, [k \in 1..sizes[n] |-> used + k])

InitAssign ==
    /\ IdleLoad /\ IdleFix /\ IdleGraph
    /\ \E k \in 0..MaxClusters : \E sizes \in [1..k -> 1..MaxClusterSize] :
         clusters = ClustersOfSizes(sizes, k)
    /\ nodes = Flatten(clusters)
    /\ similarity = <<>>
    /\ threshold = 0
    /\ color_map = <<>>
    /\ phase = "input"

AssignCall ==
    /\ phase = "input"
    /\ color_map' = assign_colors_to_clusters(clusters)
    /\ phase' = "done"
    /\ UNCHANGED <<nodes, similarity, threshold, clusters>>
    /\ UNCHANGED <<loadVars, fixVars, graphVars>>

NextAssign == AssignCall

SpecAssign == InitAssign /\ [][NextAssign]_vars

\* C9: the first members of two different clusters get different colour
\* strings.
C9_DistinctBaseColors ==
    phase = "done" =>
        \A i, j \in 1..Len(clusters) :
            i # j => color_map[clusters[i][1]] # color_map[clusters[j][1]]

-----------------------------------------------------------------------------
(* colorize_nodes_by_similarity (92-102)                                   *)

MaxNodes == 3

Labels == {"QueryTemplate", "ReturnedRows", "ExecTime", "CompileTime",
           "NumJoins", "Foo", "Bar"}

\* The end-to-end scenario of the specification, and a collection that
\* holds all five categories.
EndToEnd == <<"QueryTemplate", "ExecTime", "NumJoins", "Foo">>
AllCategories ==
    <<"Foo", "ExecTime", "QueryTemplate", "Bar", "ReturnedRows", "NumJoins">>

\* Any collection of at most MaxNodes labels (a label may occur twice), and
\* the two scenarios.
Inputs ==
    UNION {[1..k -> Labels] : k \in 0..MaxNodes} \cup {EndToEnd, AllCategories}

InitColor ==
    /\ IdleLoad /\ IdleFix /\ IdleGraph
    /\ nodes \in Inputs
    /\ similarity = <<>>
    /\ threshold = 0
    /\ clusters = <<>>
    /\ color_map = <<>>
    /\ phase = "input"

colorize_nodes_by_similarity(draws) ==
    /\ similarity' = build_semantic_matrix(nodes, draws)
    /\ threshold' = ColorizeThreshold
    /\ clusters' = cluster_by_similarity(similarity', threshold')
    /\ color_map' = assign_colors_to_clusters(clusters')

ColorizeCall ==
    /\ phase = "input"
    /\ \E draws \in [DrawnPairs(nodes) -> Units] :
         colorize_nodes_by_similarity(draws)
    /\ phase' = "done"
    /\ UNCHANGED nodes
    /\ UNCHANGED <<loadVars, fixVars, graphVars>>

NextColor == ColorizeCall

SpecColor == InitColor /\ [][NextColor]_vars

\* Reading a colour string back: "rgb(" r "," g "," b ")"
DigitValue(c) == CHOOSE v \in 0..9 : DigitChars[v + 1] = c

RECURSIVE NumeralValue(_)
NumeralValue(f) ==
    IF f = <<>> THEN 0
    ELSE 10 * NumeralValue(SubSeq(f, 1, Len(f) - 1)) + DigitValue(f[Len(f)])

IsChannelText(f) ==
    /\ Len(f) \in 1..3
    /\ \A k \in 1..Len(f) : f[k] \in Range(DigitChars)
    /\ NumeralValue(f) <= ChannelMax

IsRgbText(s) ==
    /\ Len(s) >= 5
    /\ SubSeq(s, 1, 4) = <<"r", "g", "b", "(">>
    /\ s[Len(s)] = ")"
    /\ LET body == SubSeq(s, 5, Len(s) - 1)
           commas == {k \in 1..Len(body) : body[k] = ","}
       IN  /\ Cardinality(commas) = 2
           /\ LET c1 == CHOOSE k \in commas : \A o \in commas : k <= o
                  c2 == CHOOSE k \in commas : \A o \in commas : k >= o
              IN  /\ IsChannelText(SubSeq(body, 1, c1 - 1))
                  /\ IsChannelText(SubSeq(body, c1 + 1, c2 - 1))
                  /\ IsChannelText(SubSeq(body, c2 + 1, Len(body)))

\* C4: the colour map has an entry for every input node and for no other
\* node, and every entry reads rgb(r,g,b) with r, g, b integers in [0,255].
C4_ColorMapTotal ==
    phase = "done" =>
        /\ DOMAIN color_map = Range(nodes)
        /\ \A n \in DOMAIN color_map : IsRgbText(color_map[n])

\* A cluster of two, whose second member's channels are darkened and clamped
C4_Witness ==
    /\ phase = "done"
    /\ \E i \in 1..Len(clusters) : Len(clusters[i]) >= 2
    /\ Len(clusters) >= 2

SameCluster(a, b) ==
    \E i \in 1..Len(clusters) : {a, b} \subseteq Range(clusters[i])

PairwiseDifferentCategories(list) ==
    \A i, j \in 1..Len(list) :
        i # j => get_category(list[i]) # get_category(list[j])

\* C7: two nodes of different categories never share a cluster; an input
\* whose nodes are pairwise in different categories gives one singleton
\* cluster per node, in input order.
C7_CrossCategorySeparated ==
    phase = "done" =>
        /\ \A a, b \in Range(nodes) :
             get_category(a) # get_category(b) => ~SameCluster(a, b)
        /\ PairwiseDifferentCategories(nodes) =>
             clusters = [k \in 1..Len(nodes) |-> <<nodes[k]>>]

\* The end-to-end scenario, every cross-category score at its highest
C7_Witness ==
    /\ phase = "done"
    /\ nodes = EndToEnd
    /\ \A a, b \in Range(nodes) : a # b => similarity.at[a][b] = CrossHi

\* C10: the clusters are the category classes of the input, in the order in
\* which the categories first appear; there are at most 5, and the base
\* colours are not reused.
C10_ClustersAreCategories ==
    phase = "done" =>
        /\ Range(Flatten(clusters)) = Range(nodes)
        /\ \A a, b \in Range(nodes) :
             SameCluster(a, b) <=> get_category(a) = get_category(b)
        /\ \A i, j \in 1..Len(clusters) :
             i < j => IndexIn(similarity.keys, clusters[i][1])
                        < IndexIn(similarity.keys, clusters[j][1])
        /\ Len(clusters) <= 5
        /\ \A i, j \in 1..Len(clusters) :
             i # j => color_map[clusters[i][1]] # color_map[clusters[j][1]]

\* Six nodes in five clusters, two nodes of one category drawn at the
\* lowest same-category score
C10_Witness ==
    /\ phase = "done"
    /\ nodes = AllCategories
    /\ Len(clusters) = 5
    /\ similarity.at["Foo"]["Bar"] = SameLo

-----------------------------------------------------------------------------
(* Python values for dict keys, node identifiers and attribute values.     *)
(* A key is a str, an int or a tuple of strs and ints; a dict is the list  *)
(* of its items in insertion order; a value is an atom or a dict.          *)

StrK(chars) == [kind |-> "str", s |-> chars, n |-> 0, t |-> <<>>]
IntK(i)     == [kind |-> "int", s |-> <<>>, n |-> i, t |-> <<>>]
TupK(elems) == [kind |-> "tuple", s |-> <<>>, n |-> 0, t |-> elems]

StrE(chars) == [kind |-> "str", s |-> chars, n |-> 0]
IntE(i)     == [kind |-> "int", s |-> <<>>, n |-> i]

Atom(a)  == [isdict |-> FALSE, atom |-> a, items |-> <<>>]
DictV(x) == [isdict |-> TRUE, atom |-> 0, items |-> x]

Item(key, val) == [k |-> key, v |-> val]

\* str(x) of a str or an int
PyStr(x) == IF x.kind = "str" THEN x.s ELSE IntStr(x.n)

\* sep.join(parts)
RECURSIVE Join(_, _)
Join(sep, parts) ==
    IF parts = <<>> THEN <<>>
    ELSE IF Len(parts) = 1 THEN parts[1]
    ELSE Join(sep, SubSeq(parts, 1, Len(parts) - 1)) \o sep \o parts[Len(parts)]

Separator == <<",", "\n">>

\* ",\n".join(str(x) for x in key)
JoinTuple(key) == Join(Separator, [i \in 1..Len(key.t) |-> PyStr(key.t[i])])

HasKey(dict, key) == \E i \in 1..Len(dict) : dict[i].k = key

\* del dict[key]
DictDel(dict, key) == SelectSeq(dict, LAMBDA e : e.k # key)

\* dict[key] = val: an existing key keeps its place, a new one goes last
DictSet(dict, key, val) ==
    IF HasKey(dict, key)
    THEN [i \in 1..Len(dict) |->
            IF dict[i].k = key THEN Item(key, val) ELSE dict[i]]
    ELSE Append(dict, Item(key, val))

-----------------------------------------------------------------------------
(* _fix_dict_recursively (graph_utils.py 143-170)                          *)

\* lines 155-158: the string a non-string key is replaced with
NewKey(key) ==
    IF key.kind = "tuple" THEN StrK(JoinTuple(key)) ELSE StrK(PyStr(key))

\* lines 152-160: the items whose key is not a string, in order
Replacements(dict) == SelectSeq(dict, LAMBDA e : e.k.kind # "str")

\* lines 163-165: the first n replacements performed
RECURSIVE Replace(_, _, _)
Replace(dict, reps, n) ==
    IF n = 0 THEN dict
    ELSE DictSet(DictDel(Replace(dict, reps, n - 1), reps[n].k),
                 NewKey(reps[n].k), reps[n].v)

\* _fix_dict_recursively without lines 168-170: nested dicts are left alone
fix_dict_shallow(dict) ==
    Replace(dict, Replacements(dict), Len(Replacements(dict)))

RECURSIVE fix_dict_recursively(_)
fix_dict_recursively(dict) ==
    LET reps == Replacements(dict)
        renamed == Replace(dict, reps, Len(reps))
    IN  \* lines 168-170
        [i \in 1..Len(renamed) |->
            IF renamed[i].v.isdict
            THEN Item(renamed[i].k,
                      DictV(fix_dict_recursively(renamed[i].v.items)))
            ELSE renamed[i]]

-----------------------------------------------------------------------------
(* The dictionaries _fix_dict_recursively is given                         *)

MaxEntries == 2
MaxApplied == 2

\* At the top: a string, an int whose string form is that string, a tuple
TopKeys == {StrK(<<"1">>), IntK(1), TupK(<<IntE(1), StrE(<<"a">>)>>)}

\* In nested dicts: a tuple, the string it is turned into, an int
NestedKeys == {TupK(<<IntE(1), StrE(<<"a">>)>>),
               StrK(<<"1", ",", "\n", "a">>), IntK(12)}

\* The dicts of at most n items with keys in K and values in V
DictsOver(K, V, n) ==
    UNION {{q \in [1..k -> [k : K, v : V]] :
               \A i, j \in 1..k : i # j => q[i].k # q[j].k} : k \in 0..n}

\* Nested dicts hold at most two items, atoms or a dict with an int key
LeafValues == {Atom(0), DictV(<<Item(IntK(12), Atom(0))>>)}
NestedDicts == DictsOver(NestedKeys, LeafValues, 2)
TopValues == {Atom(0)} \cup {DictV(x) : x \in NestedDicts}
TopDicts == DictsOver(TopKeys, TopValues, MaxEntries)

InitFix ==
    /\ IdleLoad /\ IdleColor /\ IdleGraph
    /\ d0 \in TopDicts
    /\ d = d0
    /\ applied = 0
    /\ after1 = <<>>

FixCall ==
    /\ applied < MaxApplied
    /\ d' = fix_dict_recursively(d)
    /\ applied' = applied + 1
    /\ after1' = IF applied = 0 THEN d' ELSE after1
    /\ UNCHANGED d0
    /\ UNCHANGED <<loadVars, colorVars, graphVars>>

NextFix == FixCall

SpecFix == InitFix /\ [][NextFix]_vars

\* Every key is a string, at every depth reached through dict values
RECURSIVE AllKeysStr(_)
AllKeysStr(dict) ==
    \A i \in 1..Len(dict) :
        /\ dict[i].k.kind = "str"
        /\ dict[i].v.isdict => AllKeysStr(dict[i].v.items)

\* C6: after one application of _fix_dict_recursively every key at every
\* depth is a string, and a second application leaves the dict as the first
\* left it.
C6_Idempotent ==
    applied >= 1 => AllKeysStr(d) /\ d = after1

\* Applied twice to a dict with a tuple key and two keys of one string form,
\* one of them holding a dict with a non-string key
C6_Witness ==
    /\ applied = 2
    /\ HasKey(d0, StrK(<<"1">>)) /\ HasKey(d0, IntK(1))
    /\ \E i \in 1..Len(d0) : d0[i].v.isdict /\ ~AllKeysStr(d0[i].v.items)
    /\ Len(d) = 1

-----------------------------------------------------------------------------
(* networkx.DiGraph: the nodes and the edges with their attribute dicts,   *)
(* in insertion order.                                                     *)

EmptyGraph == [nodes |-> <<>>, edges |-> <<>>]

HasNode(g, id) == \E i \in 1..Len(g.nodes) : g.nodes[i].id = id
HasEdge(g, u, v) == \E i \in 1..Len(g.edges) : g.edges[i].u = u /\ g.edges[i].v = v

\* dict.update(attrs)
RECURSIVE Update(_, _, _)
Update(dict, attrs, n) ==
    IF n = 0 THEN dict
    ELSE DictSet(Update(dict, attrs, n - 1), attrs[n].k, attrs[n].v)

\* DiGraph.add_node(id, **attrs)
AddNode(g, id, attrs) ==
    IF HasNode(g, id)
    THEN [g EXCEPT !.nodes = [i \in 1..Len(g.nodes) |->
            IF g.nodes[i].id = id
            THEN [id |-> id, data |-> Update(g.nodes[i].data, attrs, Len(attrs))]
            ELSE g.nodes[i]]]
    ELSE [g EXCEPT !.nodes = Append(@, [id |-> id, data |-> attrs])]

\* DiGraph.add_edge(u, v, **attrs): missing end nodes are added
AddEdge(g, u, v, attrs) ==
    LET g1 == IF HasNode(g, u) THEN g ELSE AddNode(g, u, <<>>)
        g2 == IF HasNode(g1, v) THEN g1 ELSE AddNode(g1, v, <<>>)
    IN  IF HasEdge(g2, u, v)
        THEN [g2 EXCEPT !.edges = [i \in 1..Len(g2.edges) |->
                IF g2.edges[i].u = u /\ g2.edges[i].v = v
                THEN [u |-> u, v |-> v,
                      data |-> Update(g2.edges[i].data, attrs, Len(attrs))]
                ELSE g2.edges[i]]]
        ELSE [g2 EXCEPT !.edges = Append(@, [u |-> u, v |-> v, data |-> attrs])]

-----------------------------------------------------------------------------
(* to_pyvis_compatible (graph_utils.py 77-127)                             *)

\* lines 89-92: a str is kept, anything else is iterated over and joined
new_node_id(old_node) ==
    IF old_node.kind = "str" THEN old_node ELSE StrK(JoinTuple(old_node))

\* Iterating over an int raises TypeError
Iterable(old_node) == old_node.kind \in {"str", "tuple"}

\* lines 96-100 and 119-122: only the items whose key is a str are kept
StrKeyItems(data) == SelectSeq(data, LAMBDA e : e.k.kind = "str")

\* lines 87-103
RECURSIVE NodeLoop(_, _)
NodeLoop(g, n) ==
    IF n = 0 THEN EmptyGraph
    ELSE AddNode(NodeLoop(g, n - 1), new_node_id(g.nodes[n].id),
                 StrKeyItems(g.nodes[n].data))

\* lines 106-125
RECURSIVE EdgeLoop(_, _)
EdgeLoop(g, n) ==
    IF n = 0 THEN NodeLoop(g, Len(g.nodes))
    ELSE AddEdge(EdgeLoop(g, n - 1), new_node_id(g.edges[n].u),
                 new_node_id(g.edges[n].v), StrKeyItems(g.edges[n].data))

to_pyvis_compatible(g) == EdgeLoop(g, Len(g.edges))

\* The call raises when a node identifier is neither a str nor iterable
Raises(g) == \E i \in 1..Len(g.nodes) : ~Iterable(g.nodes[i].id)

\* fix_nested_keys_in_edge_attrs (129-141): every edge's attribute dict is
\* normalised in place
fix_nested_keys_in_edge_attrs(g) ==
    [g EXCEPT !.edges = [i \in 1..Len(g.edges) |->
        [g.edges[i] EXCEPT !.data = fix_dict_recursively(@)]]]

-----------------------------------------------------------------------------
(* The graphs to_pyvis_compatible is given                                 *)

MaxGraphNodes == 2

NodeIds == {StrK(<<"A">>), TupK(<<StrE(<<"X">>), StrE(<<"Y">>)>>),
            StrK(<<"X", ",", "\n", "Y">>), IntK(7)}

AttrKeys == {StrK(<<"w">>), IntK(1)}
AttrValues == {Atom(0), DictV(<<Item(StrK(<<"k">>), Atom(0))>>),
               DictV(<<Item(TupK(<<IntE(1), StrE(<<"a">>)>>), Atom(0))>>)}

\* Attribute dicts of at most one item
AttrDicts == DictsOver(AttrKeys, AttrValues, 1)

NodeLists ==
    UNION {{q \in [1..k -> [id : NodeIds, data : AttrDicts]] :
               \A i, j \in 1..k : i # j => q[i].id # q[j].id} :
           k \in 0..MaxGraphNodes}

\* No edge, or one edge between nodes of the graph
EdgeLists(ns) ==
    {<<>>} \cup {<<[u |-> ns[i].id, v |-> ns[j].id, data |-> a]>> :
                    i \in 1..Len(ns), j \in 1..Len(ns), a \in AttrDicts}

InitGraph ==
    /\ IdleLoad /\ IdleColor /\ IdleFix
    /\ \E ns \in NodeLists : \E es \in EdgeLists(ns) :
         G = [nodes |-> ns, edges |-> es]
    /\ newG = EmptyGraph
    /\ gphase = "input"

FixEdgesCall ==
    /\ gphase = "input"
    /\ G' = fix_nested_keys_in_edge_attrs(G)
    /\ UNCHANGED <<newG, gphase>>
    /\ UNCHANGED <<loadVars, colorVars, fixVars>>

ToPyvisCall ==
    /\ gphase = "input"
    /\ IF Raises(G)
       THEN newG' = newG /\ gphase' = "raised"
       ELSE newG' = to_pyvis_compatible(G) /\ gphase' = "returned"
    /\ UNCHANGED G
    /\ UNCHANGED <<loadVars, colorVars, fixVars>>

NextGraph == FixEdgesCall \/ ToPyvisCall

SpecGraph == InitGraph /\ [][NextGraph]_vars

\* C5: the graph to_pyvis_compatible returns has only string node
\* identifiers, and every key of every node and edge attribute dict is a
\* string at every nesting depth.
C5_AllStrings ==
    gphase = "returned" =>
        /\ \A i \in 1..Len(newG.nodes) :
            /\ newG.nodes[i].id.kind = "str"
            /\ AllKeysStr(newG.nodes[i].data)
        /\ \A i \in 1..Len(newG.edges) :
            /\ newG.edges[i].u.kind = "str"
            /\ newG.edges[i].v.kind = "str"
            /\ AllKeysStr(newG.edges[i].data)

=============================================================================
